---- MODULE Spec2Model ----
(***************************************************************************)
(* topoSort of packages/dev/scripts/util.mjs as a state machine.           *)
(*                                                                         *)
(* Package ids are opaque strings that are compared for equality only, so  *)
(* they are modelled as the numbers 1..n.  The ids are assumed to be       *)
(* ordinary directory names: neither canonical array indices (which        *)
(* Object.keys would move to the front) nor names of Object.prototype      *)
(* properties.  A manifest is the set of workspace packages a package      *)
(* lists under "dependencies"; it may list the package itself.             *)
(***************************************************************************)
EXTENDS Integers, Sequences, FiniteSets, TLC

VARIABLES dirs, deps, pc, calls, returned, reads, bodyRuns, steps,
          edges, nodeKeys, vertices, sorted, visited, circular,
          keyIdx, stack, result

vars == <<dirs, deps, pc, calls, returned, reads, bodyRuns, steps,
          edges, nodeKeys, vertices, sorted, visited, circular,
          keyIdx, stack, result>>

inputs == <<dirs, deps>>
locals == <<edges, nodeKeys, vertices, sorted, visited, circular,
            keyIdx, stack, result>>

\* reads counts the manifests read by the current call, bodyRuns the runs of
\* the body of cb per node, steps the steps taken by the current call, and
\* returned keeps the value returned by every call.

\* Bounds of the model.
MaxPkgs == 4
MaxDeps == 3
MaxCalls == 2

Pkgs == 1..MaxPkgs

----------------------------------------------------------------------------
\* Helpers on sequences.

Range(s) == {s[i] : i \in DOMAIN s}

\* Array.prototype.indexOf(x) >= 0 / Array.prototype.includes(x)
Includes(s, x) == \E i \in DOMAIN s : s[i] = x

\* Array.prototype.flat() of an array of arrays
RECURSIVE Flat(_)
Flat(ss) == IF ss = <<>> THEN <<>> ELSE Head(ss) \o Flat(Tail(ss))

Reverse(s) == [i \in 1..Len(s) |-> s[Len(s) + 1 - i]]

\* Subsets of S with at most k elements.
RECURSIVE SubsetsUpTo(_, _)
SubsetsUpTo(S, k) ==
  IF k = 0 THEN {{}}
  ELSE LET prev == SubsetsUpTo(S, k - 1)
       IN  prev \cup {s \cup {x} : s \in prev, x \in S}

\* The input sequence of n packages.  The ids are only compared for
\* equality, so every sequence of n distinct ids is <<1, ..., n>> up to
\* renaming; the manifests below range over all graphs on these ids.
DirOrders(n) == {[i \in 1..n |-> i]}

\* The manifests explored for n packages: at most MaxDeps declared
\* workspace dependencies in total, self-references allowed.
Manifests(n) ==
  {[p \in 1..n |-> {d \in 1..n : <<p, d>> \in E}] :
     E \in SubsetsUpTo((1..n) \X (1..n), MaxDeps)}

----------------------------------------------------------------------------
\* State before the first call: inputs chosen, no call made.

Init ==
  /\ \E n \in 1..MaxPkgs :
       /\ dirs \in DirOrders(n)
       /\ deps \in Manifests(n)
  /\ pc = "idle"
  /\ calls = 0
  /\ returned = <<>>
  /\ reads = 0
  /\ bodyRuns = [p \in Pkgs |-> 0]
  /\ steps = 0
  /\ edges = <<>>
  /\ nodeKeys = <<>>
  /\ vertices = [p \in Pkgs |-> <<>>]
  /\ sorted = <<>>
  /\ visited = {}
  /\ circular = <<>>
  /\ keyIdx = 1
  /\ stack = <<>>
  /\ result = <<>>

----------------------------------------------------------------------------
\* Call with the one-element short-circuit left out.
CallNoShortCircuit ==
  /\ pc \in {"idle", "done"}
  /\ calls < MaxCalls
  /\ calls' = calls + 1
  /\ edges' = <<>>
  /\ nodeKeys' = <<>>
  /\ vertices' = [p \in Pkgs |-> <<>>]
  /\ sorted' = <<>>
  /\ visited' = {}
  /\ circular' = <<>>
  /\ keyIdx' = 1
  /\ stack' = <<>>
  /\ reads' = 0
  /\ bodyRuns' = [p \in Pkgs |-> 0]
  /\ steps' = 0
  /\ result' = <<>>
  /\ returned' = returned
  /\ pc' = "edges"
  /\ UNCHANGED inputs

\* Call with the visited table kept from the previous call, as if it were
\* declared at module level.
CallSharedVisited ==
  /\ pc \in {"idle", "done"}
  /\ calls < MaxCalls
  /\ calls' = calls + 1
  /\ edges' = <<>>
  /\ nodeKeys' = <<>>
  /\ vertices' = [p \in Pkgs |-> <<>>]
  /\ sorted' = <<>>
  /\ visited' = visited
  /\ circular' = <<>>
  /\ keyIdx' = 1
  /\ stack' = <<>>
  /\ reads' = 0
  /\ bodyRuns' = [p \in Pkgs |-> 0]
  /\ steps' = 0
  /\ IF Len(dirs) = 1
       THEN /\ result' = dirs
            /\ returned' = Append(returned, dirs)
            /\ pc' = "done"
       ELSE /\ result' = <<>>
            /\ returned' = returned
            /\ pc' = "edges"
  /\ UNCHANGED inputs

\* Entry of topoSort: fresh nodes, sorted, visited, circular; the
\* one-element short-circuit.

Call ==
  /\ pc \in {"idle", "done"}
  /\ calls < MaxCalls
  /\ calls' = calls + 1
  /\ edges' = <<>>
  /\ nodeKeys' = <<>>
  /\ vertices' = [p \in Pkgs |-> <<>>]
  /\ sorted' = <<>>
  /\ visited' = {}
  /\ circular' = <<>>
  /\ keyIdx' = 1
  /\ stack' = <<>>
  /\ reads' = 0
  /\ bodyRuns' = [p \in Pkgs |-> 0]
  /\ steps' = 0
  /\ IF Len(dirs) = 1
       THEN /\ result' = dirs
            /\ returned' = Append(returned, dirs)
            /\ pc' = "done"
       ELSE /\ result' = <<>>
            /\ returned' = returned
            /\ pc' = "edges"
  /\ UNCHANGED inputs

----------------------------------------------------------------------------
\* EdgesOf with the pair written as [d, dir].
EdgesOfSwapped(dir) ==
  LET keep(d) == d # dir /\ d \in deps[dir]
      ds == SelectSeq(dirs, keep)
  IN  [k \in 1..Len(ds) |-> <<ds[k], dir>>]

\* The edges of one package: the pairs [dir, d] for the other input packages
\* d its manifest names, in the order of dirs.
EdgesOf(dir) ==
  LET keep(d) == d # dir /\ d \in deps[dir]
      ds == SelectSeq(dirs, keep)
  IN  [k \in 1..Len(ds) |-> <<dir, ds[k]>>]

\* const edges = dirs.map(...).flat(): one manifest is read per package.
BuildEdges ==
  /\ pc = "edges"
  /\ reads' = reads + Len(dirs)
  /\ edges' = Flat([k \in 1..Len(dirs) |-> EdgesOf(dirs[k])])
  /\ pc' = "nodes"
  /\ steps' = steps + 1
  /\ UNCHANGED <<inputs, calls, returned, bodyRuns, nodeKeys, vertices,
                 sorted, visited, circular, keyIdx, stack, result>>

\* Insertion of a key into a plain object: a key already present keeps its
\* place in the key order.
WithKey(keys, id) == IF Includes(keys, id) THEN keys ELSE Append(keys, id)

\* The callback of edges.forEach applied to the edges es in turn: create the
\* nodes of both ends on first reference and record the outgoing edge.
RECURSIVE AddEdges(_, _, _)
AddEdges(es, keys, verts) ==
  IF es = <<>> THEN [keys |-> keys, vertices |-> verts]
  ELSE LET from == Head(es)[1]
           to == Head(es)[2]
       IN  AddEdges(Tail(es), WithKey(WithKey(keys, from), to),
                    [verts EXCEPT ![from] = Append(@, to)])

\* edges.forEach(...); const keys = Object.keys(nodes);
BuildNodes ==
  /\ pc = "nodes"
  /\ LET built == AddEdges(edges, nodeKeys, vertices)
     IN  /\ nodeKeys' = built.keys
         /\ vertices' = built.vertices
  /\ pc' = "visit"
  /\ steps' = steps + 1
  /\ UNCHANGED <<inputs, calls, returned, reads, bodyRuns, edges,
                 sorted, visited, circular, keyIdx, stack, result>>

\* A frame of cb: its key, its own ancestors array, and the position in
\* node.vertices.forEach (0: before the visited check).
Frame(key, ancestors, idx) == [key |-> key, ancestors |-> ancestors, idx |-> idx]

Top == stack[Len(stack)]
Pop == SubSeq(stack, 1, Len(stack) - 1)
ReplaceTop(f) == [stack EXCEPT ![Len(stack)] = f]

\* for (const key of keys) cb(key, [])
StartVisit ==
  /\ pc = "visit"
  /\ stack = <<>>
  /\ keyIdx <= Len(nodeKeys)
  /\ stack' = <<Frame(nodeKeys[keyIdx], <<>>, 0)>>
  /\ keyIdx' = keyIdx + 1
  /\ steps' = steps + 1
  /\ UNCHANGED <<inputs, pc, calls, returned, reads, bodyRuns, edges, nodeKeys,
                 vertices, sorted, visited, circular, result>>

\* if (visited[key]) return;
CbVisited ==
  /\ pc = "visit"
  /\ stack # <<>>
  /\ Top.idx = 0
  /\ Top.key \in visited
  /\ stack' = Pop
  /\ steps' = steps + 1
  /\ UNCHANGED <<inputs, pc, calls, returned, reads, bodyRuns, edges, nodeKeys,
                 vertices, sorted, visited, circular, keyIdx,
                 result>>

\* CbBegin without visited[key] = true.
CbBeginNoMark ==
  /\ pc = "visit"
  /\ stack # <<>>
  /\ Top.idx = 0
  /\ Top.key \notin visited
  /\ visited' = visited
  /\ bodyRuns' = [bodyRuns EXCEPT ![Top.key] = @ + 1]
  /\ stack' = ReplaceTop(Frame(Top.key, Append(Top.ancestors, Top.key), 1))
  /\ steps' = steps + 1
  /\ UNCHANGED <<inputs, pc, calls, returned, reads, edges, nodeKeys,
                 vertices, sorted, circular, keyIdx, result>>

\* ancestors.push(id); visited[key] = true;
CbBegin ==
  /\ pc = "visit"
  /\ stack # <<>>
  /\ Top.idx = 0
  /\ Top.key \notin visited
  /\ visited' = visited \cup {Top.key}
  /\ bodyRuns' = [bodyRuns EXCEPT ![Top.key] = @ + 1]
  /\ stack' = ReplaceTop(Frame(Top.key, Append(Top.ancestors, Top.key), 1))
  /\ steps' = steps + 1
  /\ UNCHANGED <<inputs, pc, calls, returned, reads, edges, nodeKeys,
                 vertices, sorted, circular, keyIdx, result>>

\* MarkCircular testing a global "seen" marker (visited) in place of the
\* ancestors of the current call.
MarkCircularSeen(circ, id, i, ancestors) ==
  IF i \in visited
    THEN WithKey(IF Includes(vertices[id], i) THEN WithKey(circ, id) ELSE circ, i)
    ELSE circ

\* MarkCircular recording the child i before the current id.
MarkCircularChildFirst(circ, id, i, ancestors) ==
  IF Includes(ancestors, i)
    THEN LET withChild == WithKey(circ, i)
         IN  IF Includes(vertices[id], i) THEN WithKey(withChild, id) ELSE withChild
    ELSE circ

\* The body of the forEach callback before the recursive call: when the
\* child i is among the ancestors, record id (if i is one of its vertices)
\* and i as circular.
MarkCircular(circ, id, i, ancestors) ==
  IF Includes(ancestors, i)
    THEN WithKey(IF Includes(vertices[id], i) THEN WithKey(circ, id) ELSE circ, i)
    ELSE circ

\* One iteration of node.vertices.forEach, up to the call
\* cb(i.toString(), ancestors.map((v) => v)).
CbChild ==
  /\ pc = "visit"
  /\ stack # <<>>
  /\ Top.idx >= 1
  /\ Top.idx <= Len(vertices[Top.key])
  /\ LET id == Top.key
         i == vertices[id][Top.idx]
     IN  /\ circular' = MarkCircular(circular, id, i, Top.ancestors)
         /\ stack' = Append(ReplaceTop(Frame(id, Top.ancestors, Top.idx + 1)),
                            Frame(i, Top.ancestors, 0))
  /\ steps' = steps + 1
  /\ UNCHANGED <<inputs, pc, calls, returned, reads, bodyRuns, edges, nodeKeys,
                 vertices, sorted, visited, keyIdx, result>>

\* PushSorted without the circular test.
PushSortedAlways(srt, circ, id) == Append(srt, id)

\* PushSorted with unshift in place of push.
PushSortedFront(srt, circ, id) == IF ~Includes(circ, id) THEN <<id>> \o srt ELSE srt

\* if (!circular[id]) sorted.push(id);
PushSorted(srt, circ, id) == IF ~Includes(circ, id) THEN Append(srt, id) ELSE srt

\* End of cb after the forEach.
CbExit ==
  /\ pc = "visit"
  /\ stack # <<>>
  /\ Top.idx > Len(vertices[Top.key])
  /\ sorted' = PushSorted(sorted, circular, Top.key)
  /\ stack' = Pop
  /\ steps' = steps + 1
  /\ UNCHANGED <<inputs, pc, calls, returned, reads, bodyRuns, edges, nodeKeys,
                 vertices, visited, circular, keyIdx, result>>

----------------------------------------------------------------------------
\* Object.keys(circular).sort(comparator) as Node's engine runs it for
\* arrays shorter than 64 elements: the leading run is found (and reversed
\* when strictly descending), the rest is placed by binary insertion.

\* Compare with <= in place of <.
CompareLessEq(a, b) == IF Len(vertices[a]) <= Len(vertices[b]) THEN -1 ELSE 1

\* Compare with > in place of <.
CompareGreater(a, b) == IF Len(vertices[a]) > Len(vertices[b]) THEN -1 ELSE 1

\* (a, b) => circular[a].vertices.length < circular[b].vertices.length ? -1 : 1
Compare(a, b) == IF Len(vertices[a]) < Len(vertices[b]) THEN -1 ELSE 1

RECURSIVE RunEnd(_, _, _)
RunEnd(arr, idx, desc) ==
  IF idx > Len(arr) THEN idx - 1
  ELSE LET order == Compare(arr[idx], arr[idx - 1])
       IN  IF (desc /\ order >= 0) \/ (~desc /\ order < 0)
             THEN idx - 1
             ELSE RunEnd(arr, idx + 1, desc)

RECURSIVE BinarySearch(_, _, _, _)
BinarySearch(arr, pivot, left, right) ==
  IF left >= right THEN left
  ELSE LET mid == left + ((right - left) \div 2)
       IN  IF Compare(pivot, arr[mid]) < 0
             THEN BinarySearch(arr, pivot, left, mid)
             ELSE BinarySearch(arr, pivot, mid + 1, right)

RECURSIVE BinaryInsertionSort(_, _)
BinaryInsertionSort(arr, start) ==
  IF start > Len(arr) THEN arr
  ELSE LET pivot == arr[start]
           left == BinarySearch(arr, pivot, 1, start)
           moved == [p \in 1..Len(arr) |->
                       IF p < left \/ p > start THEN arr[p]
                       ELSE IF p = left THEN pivot
                       ELSE arr[p - 1]]
       IN  BinaryInsertionSort(moved, start + 1)

SortKeys(arr) ==
  IF Len(arr) < 2 THEN arr
  ELSE LET desc == Compare(arr[2], arr[1]) < 0
           run == RunEnd(arr, 3, desc)
           made == IF desc
                     THEN Reverse(SubSeq(arr, 1, run)) \o SubSeq(arr, run + 1, Len(arr))
                     ELSE arr
       IN  BinaryInsertionSort(made, run + 1)

CircularSorted == SortKeys(circular)

\* StandAlones looking at the depending end of the edges only.
StandAlonesFromOnly ==
  LET froms == [k \in 1..Len(edges) |-> edges[k][1]]
      alone(d) == ~Includes(froms, d)
  IN  SelectSeq(dirs, alone)

\* dirs.filter((d) => !flattenedEdges.includes(d))
StandAlones ==
  LET flattenedEdges == Flat(edges)
      alone(d) == ~Includes(flattenedEdges, d)
  IN  SelectSeq(dirs, alone)

\* return sorted.concat(circularSorted).concat(standAlones)
Finish ==
  /\ pc = "visit"
  /\ stack = <<>>
  /\ keyIdx > Len(nodeKeys)
  /\ result' = sorted \o CircularSorted \o StandAlones
  /\ returned' = Append(returned, result')
  /\ pc' = "done"
  /\ steps' = steps + 1
  /\ UNCHANGED <<inputs, calls, reads, bodyRuns, edges, nodeKeys, vertices,
                 sorted, visited, circular, keyIdx, stack>>

Next ==
  \/ Call
  \/ BuildEdges
  \/ BuildNodes
  \/ StartVisit
  \/ CbVisited
  \/ CbBegin
  \/ CbChild
  \/ CbExit
  \/ Finish

Spec == Init /\ [][Next]_vars
----------------------------------------------------------------------------
\* Vocabulary of the properties, taken from the inputs and not from the
\* tables the sort builds.

Done == pc = "done"

Ids == Range(dirs)

\* a depends on b: a's manifest names the other input package b.
DependsOn(a, b) == a \in Ids /\ b \in Ids /\ a # b /\ b \in deps[a]

DeclaredEdges == {e \in Ids \X Ids : DependsOn(e[1], e[2])}

OutDegree(a) == Cardinality({b \in Ids : DependsOn(a, b)})

RECURSIVE ReachFrom(_)
ReachFrom(S) ==
  LET more == S \cup {b \in Ids : \E a \in S : DependsOn(a, b)}
  IN  IF more = S THEN S ELSE ReachFrom(more)

\* a lies on a closed chain of edges.
OnCycle(a) == a \in ReachFrom({b \in Ids : DependsOn(a, b)})

Acyclic == \A a \in Ids : ~OnCycle(a)

NoEdge(a) == \A b \in Ids : ~DependsOn(a, b) /\ ~DependsOn(b, a)

IsPermutation(s, t) ==
  /\ Len(s) = Len(t)
  /\ Range(s) = Range(t)
  /\ \A i, j \in DOMAIN s : s[i] = s[j] => i = j

Pos(s, x) == CHOOSE i \in DOMAIN s : s[i] = x

Before(s, x, y) == Includes(s, x) /\ Includes(s, y) /\ Pos(s, x) < Pos(s, y)

InCircular(a) == Includes(circular, a)

----------------------------------------------------------------------------
\* C1: the returned sequence is a permutation of the input ids, and no id is
\* both in sorted and in the circular set.
C1_Permutation ==
  Done => /\ IsPermutation(result, dirs)
          /\ Range(sorted) \cap Range(circular) = {}

C1_Witness ==
  /\ Done
  /\ Len(dirs) >= 4
  /\ sorted # <<>>
  /\ circular # <<>>
  /\ StandAlones # <<>>

\* C2: on an acyclic graph every dependency precedes its dependent in the
\* result.
C2_AcyclicOrder ==
  (Done /\ Acyclic) =>
    \A e \in DeclaredEdges : Before(result, e[2], e[1])

C2_Witness ==
  /\ Done
  /\ Acyclic
  /\ \E a, b, c \in Ids : DependsOn(a, b) /\ DependsOn(b, c) /\ DependsOn(a, c)

\* C3: every package that lies on a dependency cycle is in the circular set
\* and not in sorted.
C3_CycleMembersCircular ==
  (Done /\ Len(dirs) > 1) =>
    \A a \in Ids : OnCycle(a) => InCircular(a) /\ ~Includes(sorted, a)

\* The call is under way.
InCall == pc \in {"edges", "nodes", "visit"}

RECURSIVE SumOver(_, _)
SumOver(S, f) ==
  IF S = {} THEN 0
  ELSE LET x == CHOOSE y \in S : TRUE IN f[x] + SumOver(S \ {x}, f)

\* Edges the traversal has still to walk: those of the nodes not yet
\* visited and those the open frames of cb have not reached.
EdgesToWalk ==
  LET unvisited == Range(nodeKeys) \ visited
      open == {k \in DOMAIN stack : stack[k].idx >= 1}
  IN  SumOver(unvisited, [p \in unvisited |-> Len(vertices[p])])
      + SumOver(open, [k \in open |->
                         Len(vertices[stack[k].key]) - stack[k].idx + 1])

\* The largest value of Work: the one at the start of a call.
StartWork == 3 + 3 * Len(dirs) + 2 * Len(dirs) * Len(dirs)

\* A bound on the number of steps the call has still to take.
Work ==
  CASE pc = "edges" -> StartWork
    [] pc = "nodes" -> 2 + 3 * Len(dirs) + 2 * Len(edges)
    [] pc = "visit" -> 1 + 2 * (Len(nodeKeys) + 1 - keyIdx)
                         + Cardinality(Range(nodeKeys) \ visited)
                         + 2 * EdgesToWalk + Len(stack)
    [] OTHER -> 0

\* C4: a call always returns, cycles or not: while it is under way cb is
\* only entered for keys that have a node (so node.id never fails), and
\* the steps taken plus the bound Work on the steps to come never exceed the
\* bound at the start, so the call returns within StartWork steps; the body
\* of cb (past the visited check) runs at most once per node.
C4_Terminates ==
  /\ \A p \in Pkgs : bodyRuns[p] <= 1
  /\ InCall => /\ \A k \in DOMAIN stack : Includes(nodeKeys, stack[k].key)
               /\ Work >= 1
               /\ steps + Work <= StartWork

C4_Witness ==
  /\ Done
  /\ circular # <<>>
  /\ Len(nodeKeys) >= 3
  /\ \A p \in Range(nodeKeys) : bodyRuns[p] = 1

\* C5: the packages without any edge are exactly the tail of the result, in
\* input order.
C5_StandAlonesLast ==
  Done =>
    LET alone == SelectSeq(dirs, NoEdge)
        k == Len(result) - Len(alone)
    IN  /\ k >= 0
        /\ SubSeq(result, k + 1, Len(result)) = alone
        /\ \A i \in 1..k : ~NoEdge(result[i])

C5_Witness ==
  /\ Done
  /\ Len(SelectSeq(dirs, NoEdge)) >= 2
  /\ NoEdge(dirs[1])
  /\ sorted # <<>>

\* C6: the circular members appear in the result by ascending out-degree.
C6_CircularAscending ==
  Done =>
    \A i, j \in DOMAIN result :
      (i < j /\ InCircular(result[i]) /\ InCircular(result[j]))
        => OutDegree(result[i]) <= OutDegree(result[j])

C6_Witness ==
  /\ Done
  /\ \E i, j \in DOMAIN circular :
       i < j /\ OutDegree(circular[i]) > OutDegree(circular[j])

\* C7: a one-element input is returned unchanged, without reading a manifest
\* and without building edges or nodes.
C7_Singleton ==
  (Len(dirs) = 1 /\ calls >= 1) =>
    /\ Done
    /\ result = dirs
    /\ reads = 0
    /\ edges = <<>>
    /\ nodeKeys = <<>>

C7_Witness ==
  /\ Done
  /\ Len(dirs) = 1
  /\ deps[dirs[1]] # {}

\* The input of the mixed scenario: p1 -> p2, p2 -> p3, p3 -> p2, p4 alone.
MixedScenario ==
  /\ dirs = <<1, 2, 3, 4>>
  /\ deps = [p \in 1..4 |-> IF p = 1 THEN {2} ELSE IF p = 2 THEN {3}
                             ELSE IF p = 3 THEN {2} ELSE {}]

\* C8 as stated: the mixed scenario returns [p1, p2, p3, p4].
C8_Original == (Done /\ MixedScenario) => result = <<1, 2, 3, 4>>

\* C8 as amended: the mixed scenario returns [p1, p3, p2, p4]; p1 alone is in
\* sorted, the circular set holds p3 then p2, p4 is the standalone.
C8_MixedScenario ==
  (Done /\ MixedScenario) =>
    /\ result = <<1, 3, 2, 4>>
    /\ sorted = <<1>>
    /\ circular = <<3, 2>>

C8_Witness == Done /\ MixedScenario /\ calls = 1

\* C9: all calls on the same input return the same sequence.
C9_SameOutput ==
  \A i, j \in DOMAIN returned : returned[i] = returned[j]

C9_Witness ==
  /\ Done
  /\ Len(returned) >= 2
  /\ sorted # <<>>
  /\ circular # <<>>

\* C10: for every edge whose two ends are both outside the circular set, the
\* dependency precedes the dependent in the result.
C10_NonCircularOrder ==
  Done =>
    \A e \in DeclaredEdges :
      (~InCircular(e[1]) /\ ~InCircular(e[2])) => Before(result, e[2], e[1])

C10_Witness ==
  /\ Done
  /\ circular # <<>>
  /\ \E e \in DeclaredEdges : ~InCircular(e[1]) /\ ~InCircular(e[2])

\* C11: at every moment of the traversal every member of the circular set
\* lies on a dependency cycle; on an acyclic graph the circular set is empty
\* and the result is sorted followed by the standalones.
C11_CircularOnlyOnCycle ==
  /\ \A a \in Range(circular) : OnCycle(a)
  /\ (Done /\ Acyclic) => (circular = <<>> /\ result = sorted \o StandAlones)

C11_Witness ==
  /\ Done
  /\ Acyclic
  /\ circular = <<>>
  /\ \E a, b, c \in Ids :
       a # b /\ DependsOn(a, c) /\ DependsOn(b, c) /\ Before(nodeKeys, a, b)
  /\ Len(sorted) >= 3

\* C12: circular members of equal out-degree keep, in the result, the order
\* in which they entered the circular set, and the comparator reports no two
\* members (not even a member and itself) as equal.
C12_StableTies ==
  Done =>
    /\ \A i, j \in DOMAIN circular :
         (i < j /\ OutDegree(circular[i]) = OutDegree(circular[j]))
           => Before(result, circular[i], circular[j])
    /\ \A a, b \in Range(circular) : Compare(a, b) # 0

C12_Witness ==
  /\ Done
  /\ Len(sorted) >= 1
  /\ \E i, j \in DOMAIN circular :
       /\ i < j
       /\ OutDegree(circular[i]) = OutDegree(circular[j])
       /\ circular[i] > circular[j]
====
